---- MODULE Spec2Model ----
(***************************************************************************)
(* Simulation objects of voxblox (simulation/objects.h): the base class    *)
(* Object and its subclasses Sphere, Cube and Plane, with the map-building *)
(* accessor getDistanceToPoint, the raycasting accessor getRayIntersection *)
(* and getColor.                                                           *)
(*                                                                         *)
(* FloatingPoint values are fixed-point numbers: the integer v stands for  *)
(* the real v / Scale.  Sums and differences are exact; products,          *)
(* quotients and square roots are rounded to the nearest representable     *)
(* value, as floating-point arithmetic rounds them.  A Point is a triple   *)
(* <<x, y, z>> of such values.                                             *)
(***************************************************************************)
EXTENDS Integers, Sequences, FiniteSets, TLC

VARIABLES obj, pc, call, ret, intersect_point, intersect_dist, cout

vars == <<obj, pc, call, ret, intersect_point, intersect_dist, cout>>

(***************************************************************************)
(* Bounds of the model.                                                    *)
(***************************************************************************)
MaxGrid == 1
MaxAxis == 5
MaxCenter == 1
MaxRadius == 2
MaxSize == 1
MaxRange == 10
MaxLines == 1

(***************************************************************************)
(* FloatingPoint arithmetic.                                               *)
(***************************************************************************)
Scale == 100

Abs(x) == IF x < 0 THEN -x ELSE x

Sgn(x) == IF x < 0 THEN -1 ELSE IF x > 0 THEN 1 ELSE 0

\* n / d rounded to the nearest integer (d # 0).
DivNearest(n, d) == Sgn(n) * Sgn(d) * ((2 * Abs(n) + Abs(d)) \div (2 * Abs(d)))

FMul(a, b) == DivNearest(a * b, Scale)

FDiv(a, b) == DivNearest(a * Scale, b)

RECURSIVE ISqrtIter(_, _, _)
\* the r with lo <= r < hi and r * r <= n < (r + 1) * (r + 1)
ISqrtIter(n, lo, hi) ==
    IF hi - lo <= 1 THEN lo
    ELSE LET mid == (lo + hi) \div 2
         IN IF mid * mid <= n THEN ISqrtIter(n, mid, hi)
            ELSE ISqrtIter(n, lo, mid)

ISqrt(n) == ISqrtIter(n, 0, IF n + 1 < 46340 THEN n + 1 ELSE 46340)

\* sqrt(a), a >= 0, rounded to the nearest representable value
FSqrt(a) ==
    LET n == a * Scale
        r == ISqrt(n)
    IN IF n - r * r > r THEN r + 1 ELSE r

Max(a, b) == IF a < b THEN b ELSE a

(***************************************************************************)
(* Point (Eigen 3-vector) operations used by the objects.                  *)
(***************************************************************************)
Sub(a, b) == <<a[1] - b[1], a[2] - b[2], a[3] - b[3]>>

Add(a, b) == <<a[1] + b[1], a[2] + b[2], a[3] + b[3]>>

Times(s, a) == <<FMul(s, a[1]), FMul(s, a[2]), FMul(s, a[3])>>

Dot(a, b) == FMul(a[1], b[1]) + FMul(a[2], b[2]) + FMul(a[3], b[3])

SquaredNorm(a) == Dot(a, a)

Norm(a) == FSqrt(SquaredNorm(a))

MaxCoeff(a) == Max(Max(a[1], a[2]), a[3])

(***************************************************************************)
(* Input domains.                                                          *)
(***************************************************************************)
GridPoints ==
    {<<x * Scale, y * Scale, z * Scale>> : x, y, z \in -MaxGrid..MaxGrid}

AxisPoints ==
    UNION {{<<k * Scale, 0, 0>>, <<0, k * Scale, 0>>, <<0, 0, k * Scale>>} :
             k \in -MaxAxis..MaxAxis}

Points == GridPoints \cup AxisPoints

\* centers on the diagonal: the origin and points off every axis plane
Centers == {<<k * Scale, k * Scale, k * Scale>> : k \in 0..MaxCenter}

AxisDirections ==
    {<<Scale, 0, 0>>, <<-Scale, 0, 0>>, <<0, Scale, 0>>, <<0, -Scale, 0>>,
     <<0, 0, Scale>>, <<0, 0, -Scale>>}

\* the unit vector (0.6, 0.8, 0)
UnitDiagonal == <<(3 * Scale) \div 5, (4 * Scale) \div 5, 0>>

UnitVectors == AxisDirections \cup {UnitDiagonal}

\* ray directions: unit vectors and one vector that is not normalised
Directions == UnitVectors \cup {<<Scale, Scale, 0>>}

\* plane normals: unit vectors and two vectors that are not normalised
Normals == UnitVectors \cup {<<0, 0, 2 * Scale>>, <<2 * Scale, 0, 0>>}

Radii == {r * Scale : r \in 0..MaxRadius}

Sizes == {<<x * Scale, y * Scale, z * Scale>> : x, y, z \in 0..MaxSize}

MaxDists == {-Scale, 0, Scale, 4 * Scale, MaxRange * Scale}

Colors == {"White", "Red"}

Types == {"kSphere", "kCube", "kPlane"}

(***************************************************************************)
(* Constructors.                                                           *)
(***************************************************************************)
NewObject(center, type, color) ==
    [class |-> "Object", center_ |-> center, type_ |-> type, color_ |-> color]

NewSphere(center, radius, color) ==
    [class |-> "Sphere", center_ |-> center, type_ |-> "kSphere",
     color_ |-> color, radius_ |-> radius]

NewCube(center, size, color) ==
    [class |-> "Cube", center_ |-> center, type_ |-> "kCube",
     color_ |-> color, size_ |-> size]

NewPlane(center, normal, color) ==
    [class |-> "Plane", center_ |-> center, type_ |-> "kPlane",
     color_ |-> color, normal_ |-> normal]

Objects ==
    {NewObject(c, t, col) : c \in Centers, t \in Types, col \in Colors}

Spheres ==
    {NewSphere(c, r, col) : c \in Centers, r \in Radii, col \in Colors}

Cubes ==
    {NewCube(c, s, col) : c \in Centers, s \in Sizes, col \in Colors}

Planes ==
    {NewPlane(c, n, col) : c \in Centers, n \in Normals, col \in Colors}

(***************************************************************************)
(* Results of getRayIntersection: the returned bool, the two output        *)
(* parameters as the call leaves them (Unset: not written) and the number  *)
(* of lines written to std::cout.                                          *)
(***************************************************************************)
Unset == "unset"

Miss(lines) ==
    [hit |-> FALSE, point |-> Unset, dist |-> Unset, lines |-> lines]

Hit(point, dist, lines) ==
    [hit |-> TRUE, point |-> point, dist |-> dist, lines |-> lines]

(***************************************************************************)
(* Object                                                                  *)
(***************************************************************************)
ObjectGetDistanceToPoint(self, point) == 0

GetColor(self) == self.color_

ObjectGetRayIntersection(self, ray_origin, ray_direction, max_dist) == Miss(0)

(***************************************************************************)
(* Sphere                                                                  *)
(***************************************************************************)
\* SphereGetDistanceToPoint returning the distance to the surface unsigned
SphereDistanceUnsigned(self, point) ==
    Abs(Norm(Sub(self.center_, point)) - self.radius_)

SphereGetDistanceToPoint(self, point) ==
    Norm(Sub(self.center_, point)) - self.radius_

\* SphereGetRayIntersection without the test against max_dist
SphereRayIgnoringRange(self, ray_origin, ray_direction, max_dist) ==
    LET b == Dot(ray_direction, Sub(ray_origin, self.center_))
        under_square_root ==
            FMul(b, b) - SquaredNorm(Sub(ray_origin, self.center_))
              + FMul(self.radius_, self.radius_)
        d == -b - FSqrt(under_square_root)
    IN IF under_square_root < 0 THEN Miss(0)
       ELSE IF d < 0 THEN Miss(0)
       ELSE Hit(Add(ray_origin, Times(d, ray_direction)), d, 0)

\* SphereGetRayIntersection taking the larger root
SphereRayFarRoot(self, ray_origin, ray_direction, max_dist) ==
    LET b == Dot(ray_direction, Sub(ray_origin, self.center_))
        under_square_root ==
            FMul(b, b) - SquaredNorm(Sub(ray_origin, self.center_))
              + FMul(self.radius_, self.radius_)
        d == -b + FSqrt(under_square_root)
    IN IF under_square_root < 0 THEN Miss(0)
       ELSE IF d < 0 THEN Miss(0)
       ELSE IF d > max_dist THEN Miss(0)
       ELSE Hit(Add(ray_origin, Times(d, ray_direction)), d, 0)

SphereGetRayIntersection(self, ray_origin, ray_direction, max_dist) ==
    LET b == Dot(ray_direction, Sub(ray_origin, self.center_))
        under_square_root ==
            FMul(b, b) - SquaredNorm(Sub(ray_origin, self.center_))
              + FMul(self.radius_, self.radius_)
        d == -b - FSqrt(under_square_root)
    IN IF under_square_root < 0 THEN Miss(0)
       ELSE IF d < 0 THEN Miss(0)
       ELSE IF d > max_dist THEN Miss(0)
       ELSE Hit(Add(ray_origin, Times(d, ray_direction)), d, 0)

(***************************************************************************)
(* Cube                                                                    *)
(***************************************************************************)
CubeEpsInv == 1000000

\* CubeGetDistanceToPoint without the branch for a point inside
CubeDistanceClampedOnly(self, point) ==
    LET c == self.center_
        s == self.size_
        clamped == [i \in 1..3 |->
                      Max(Max(c[i] - s[i] - point[i], 0),
                          point[i] - c[i] - s[i])]
    IN Norm(clamped)

CubeGetDistanceToPoint(self, point) ==
    LET c == self.center_
        s == self.size_
        clamped == [i \in 1..3 |->
                      Max(Max(c[i] - s[i] - point[i], 0),
                          point[i] - c[i] - s[i])]
        distance == Norm(clamped)
        signed == [i \in 1..3 |->
                     Max(c[i] - s[i] - point[i], point[i] - c[i] - s[i])]
    IN IF distance * CubeEpsInv < Scale THEN MaxCoeff(signed) ELSE distance

(***************************************************************************)
(* Plane                                                                   *)
(***************************************************************************)
PlaneEpsInv == 1000000

\* PlaneGetDistanceToPoint returning the distance unsigned
PlaneDistanceUnsigned(self, point) ==
    LET d == -Dot(self.normal_, self.center_)
        p == FDiv(d, Norm(self.normal_))
    IN Abs(Dot(self.normal_, point) + p)

PlaneGetDistanceToPoint(self, point) ==
    LET d == -Dot(self.normal_, self.center_)
        p == FDiv(d, Norm(self.normal_))
    IN Dot(self.normal_, point) + p

\* PlaneGetRayIntersection reporting a ray that lies in the plane as a hit
PlaneRayInPlaneHit(self, ray_origin, ray_direction, max_dist) ==
    LET denominator == Dot(ray_direction, self.normal_)
        numerator == Dot(Sub(self.center_, ray_origin), self.normal_)
        d == FDiv(numerator, denominator)
    IN IF Abs(denominator) * PlaneEpsInv < Scale
       THEN IF numerator = 0 /\ 0 <= max_dist
            THEN Hit(ray_origin, 0, 0) ELSE Miss(0)
       ELSE IF d < 0 THEN Miss(1)
       ELSE IF d > max_dist THEN Miss(1)
       ELSE Hit(Add(ray_origin, Times(d, ray_direction)), d, 1)

\* PlaneGetRayIntersection without the test for a hit behind the origin
PlaneRayBehindOrigin(self, ray_origin, ray_direction, max_dist) ==
    LET denominator == Dot(ray_direction, self.normal_)
        d == FDiv(Dot(Sub(self.center_, ray_origin), self.normal_),
                  denominator)
    IN IF Abs(denominator) * PlaneEpsInv < Scale THEN Miss(0)
       ELSE IF d > max_dist THEN Miss(1)
       ELSE Hit(Add(ray_origin, Times(d, ray_direction)), d, 1)

PlaneGetRayIntersection(self, ray_origin, ray_direction, max_dist) ==
    LET denominator == Dot(ray_direction, self.normal_)
        d == FDiv(Dot(Sub(self.center_, ray_origin), self.normal_),
                  denominator)
    IN IF Abs(denominator) * PlaneEpsInv < Scale THEN Miss(0)
       ELSE IF d < 0 THEN Miss(1)
       ELSE IF d > max_dist THEN Miss(1)
       ELSE Hit(Add(ray_origin, Times(d, ray_direction)), d, 1)

(***************************************************************************)
(* The state machine: a caller holds one object and queries it.            *)
(***************************************************************************)
NoCall == [op |-> "none"]

Init ==
    /\ obj \in Objects \cup Spheres \cup Cubes \cup Planes
    /\ pc = "idle"
    /\ call = NoCall
    /\ ret = "none"
    /\ intersect_point = Unset
    /\ intersect_dist = Unset
    /\ cout = 0

\* virtual dispatch on the dynamic class of the object
VirtualGetDistanceToPoint(self, point) ==
    CASE self.class = "Sphere" -> SphereGetDistanceToPoint(self, point)
      [] self.class = "Cube" -> CubeGetDistanceToPoint(self, point)
      [] self.class = "Plane" -> PlaneGetDistanceToPoint(self, point)
      [] OTHER -> ObjectGetDistanceToPoint(self, point)

\* Cube does not override getRayIntersection: the call runs Object's.
VirtualGetRayIntersection(self, ray_origin, ray_direction, max_dist) ==
    CASE self.class = "Sphere" ->
           SphereGetRayIntersection(self, ray_origin, ray_direction, max_dist)
      [] self.class = "Plane" ->
           PlaneGetRayIntersection(self, ray_origin, ray_direction, max_dist)
      [] OTHER ->
           ObjectGetRayIntersection(self, ray_origin, ray_direction, max_dist)

DistanceCall(class) ==
    /\ pc = "idle"
    /\ obj.class = class
    /\ \E point \in Points :
         /\ call' = [op |-> "getDistanceToPoint", point |-> point]
         /\ ret' = VirtualGetDistanceToPoint(obj, point)
    /\ pc' = "returned"
    /\ UNCHANGED <<obj, intersect_point, intersect_dist, cout>>

RayCall(class) ==
    /\ pc = "idle"
    /\ obj.class = class
    /\ cout < MaxLines
    /\ \E ray_origin \in Points, ray_direction \in Directions,
          max_dist \in MaxDists :
         LET r == VirtualGetRayIntersection(obj, ray_origin, ray_direction,
                                               max_dist)
         IN /\ call' = [op |-> "getRayIntersection",
                        ray_origin |-> ray_origin,
                        ray_direction |-> ray_direction,
                        max_dist |-> max_dist]
            /\ ret' = r.hit
            /\ intersect_point' = IF r.hit THEN r.point ELSE intersect_point
            /\ intersect_dist' = IF r.hit THEN r.dist ELSE intersect_dist
            /\ cout' = cout + r.lines
    /\ pc' = "returned"
    /\ UNCHANGED obj

ObjectDistance == DistanceCall("Object")

SphereDistance == DistanceCall("Sphere")

CubeDistance == DistanceCall("Cube")

PlaneDistance == DistanceCall("Plane")

ObjectRay == RayCall("Object")

CubeRay == RayCall("Cube")

SphereRay == RayCall("Sphere")

PlaneRay == RayCall("Plane")

ColorCall ==
    /\ pc = "idle"
    /\ call' = [op |-> "getColor"]
    /\ ret' = GetColor(obj)
    /\ pc' = "returned"
    /\ UNCHANGED <<obj, intersect_point, intersect_dist, cout>>

\* The caller has used the result; its output variables go out of scope.
Return ==
    /\ pc = "returned"
    /\ pc' = "idle"
    /\ call' = NoCall
    /\ ret' = "none"
    /\ intersect_point' = Unset
    /\ intersect_dist' = Unset
    /\ UNCHANGED <<obj, cout>>

Next ==
    \/ ObjectDistance
    \/ SphereDistance
    \/ CubeDistance
    \/ PlaneDistance
    \/ ObjectRay
    \/ CubeRay
    \/ SphereRay
    \/ PlaneRay
    \/ ColorCall
    \/ Return

Spec == Init /\ [][Next]_vars

TypeOK ==
    /\ pc \in {"idle", "returned"}
    /\ cout \in 0..MaxLines

(***************************************************************************)
(* Vocabulary of the properties.  These are computed in exact integer      *)
(* arithmetic, independently of the rounded operations above.              *)
(***************************************************************************)
DistanceReturned(class) ==
    pc = "returned" /\ call.op = "getDistanceToPoint" /\ obj.class = class

RayReturned(class) ==
    pc = "returned" /\ call.op = "getRayIntersection" /\ obj.class = class

AnyRayReturned == pc = "returned" /\ call.op = "getRayIntersection"

\* a . b of two representable vectors, as a representable value
ExactDot(a, b) == (a[1] * b[1] + a[2] * b[2] + a[3] * b[3]) \div Scale

\* |a|^2 in units of 1 / Scale^2
RawSquaredNorm(a) == a[1] * a[1] + a[2] * a[2] + a[3] * a[3]

IsUnit(a) == RawSquaredNorm(a) = Scale * Scale

\* v is the representable value nearest to sqrt(n / Scale^2)
NearestRoot(v, n) == v >= 0 /\ Abs(n - v * v) <= v

\* the outcome of a call that found no intersection
PlainNoIntersection ==
    ret = FALSE /\ intersect_point = Unset /\ intersect_dist = Unset

\* the ray origin lies exactly on the surface of the sphere or plane
OriginOnSurface ==
    LET oc == Sub(call.ray_origin, obj.center_)
    IN CASE obj.class = "Sphere" ->
              RawSquaredNorm(oc) = obj.radius_ * obj.radius_
         [] obj.class = "Plane" -> ExactDot(obj.normal_, oc) = 0
         [] OTHER -> FALSE

(***************************************************************************)
(* C1: the ray-intersection query of a Cube reports an outcome that can be *)
(* told apart from "no intersection"; it never returns a plain "no         *)
(* intersection".                                                          *)
(***************************************************************************)
C1_CubeRayReportsUnsupported ==
    RayReturned("Cube") => ~PlainNoIntersection

C3_QueriesHaveNoSideEffects ==
    [][obj' = obj /\ cout' = cout]_vars

(***************************************************************************)
(* C4: the sphere ray intersection reports the near root, never the exit   *)
(* point.  With b = direction . (origin - center) and                      *)
(* c = |origin - center|^2 - radius^2, a returned distance is              *)
(* -b - sqrt(b^2 - c); a unit-direction ray cast from outside through the  *)
(* center returns |origin - center| - radius when that is within max_dist; *)
(* a ray whose origin is strictly inside the sphere returns no result.     *)
(***************************************************************************)
C4_SphereRayReportsNearRoot ==
    RayReturned("Sphere") =>
        LET oc == Sub(call.ray_origin, obj.center_)
            b == ExactDot(call.ray_direction, oc)
            c == ExactDot(oc, oc) - (obj.radius_ * obj.radius_) \div Scale
            throughCenter ==
                /\ IsUnit(call.ray_direction)
                /\ b < 0
                /\ b * b = RawSquaredNorm(oc)
        IN /\ ret = TRUE =>
                NearestRoot(-b - intersect_dist, b * b - c * Scale)
           /\ throughCenter /\ c > 0 /\ -b - obj.radius_ <= call.max_dist =>
                ret = TRUE /\ intersect_dist = -b - obj.radius_
           /\ c < 0 => ret = FALSE

\* Sphere at the origin with radius 1, ray from (-5,0,0) toward (1,0,0):
\* hit at (-1,0,0), distance 4.
C4_Witness ==
    /\ RayReturned("Sphere")
    /\ obj.center_ = <<0, 0, 0>>
    /\ obj.radius_ = Scale
    /\ call.ray_origin = <<-5 * Scale, 0, 0>>
    /\ call.ray_direction = <<Scale, 0, 0>>
    /\ ret = TRUE
    /\ intersect_point = <<-Scale, 0, 0>>
    /\ intersect_dist = 4 * Scale

(***************************************************************************)
(* C5: a ray parallel to a plane (direction . normal = 0) gets no result   *)
(* for every max_dist, also when its origin lies on the plane.             *)
(***************************************************************************)
C5_ParallelRayMissesPlane ==
    RayReturned("Plane")
      /\ ExactDot(call.ray_direction, obj.normal_) = 0 => ret = FALSE

\* A parallel ray that starts on the plane, cast with a positive range.
C5_Witness ==
    /\ RayReturned("Plane")
    /\ ExactDot(call.ray_direction, obj.normal_) = 0
    /\ OriginOnSurface
    /\ call.max_dist > 0
    /\ ret = FALSE

(***************************************************************************)
(* C6: for a plane with a unit normal the distance query is signed and     *)
(* linear along the normal: it returns 0 for every point p with            *)
(* normal . (p - center) = 0 and exactly t for the point                   *)
(* center + t * normal, for positive, zero and negative t.                 *)
(***************************************************************************)
C6_PlaneDistanceSignedLinear ==
    DistanceReturned("Plane") /\ IsUnit(obj.normal_) =>
        LET pc_ == Sub(call.point, obj.center_)
            span == (MaxGrid + MaxAxis + MaxCenter) * Scale
        IN /\ ExactDot(obj.normal_, pc_) = 0 => ret = 0
           /\ \A t \in -span..span :
                (\A i \in 1..3 : pc_[i] * Scale = t * obj.normal_[i])
                  => ret = t

\* A point two units behind a plane whose center is not the origin.
C6_Witness ==
    /\ DistanceReturned("Plane")
    /\ IsUnit(obj.normal_)
    /\ obj.center_ # <<0, 0, 0>>
    /\ \A i \in 1..3 :
         (call.point[i] - obj.center_[i]) * Scale
           = (-2 * Scale) * obj.normal_[i]
    /\ ret = -2 * Scale

(***************************************************************************)
(* C7: for a cube with non-negative half-extents the distance query is     *)
(* strictly positive for a point strictly outside the box, where it is the *)
(* Euclidean norm of the per-axis gaps, and non-positive for a point on or *)
(* inside the box, where it is the maximum over the axes of                *)
(* |p_i - center_i| - size_i.                                              *)
(***************************************************************************)
C7_CubeDistanceOutsideInside ==
    DistanceReturned("Cube") =>
        LET excess == [i \in 1..3 |->
                         Abs(call.point[i] - obj.center_[i]) - obj.size_[i]]
            gap == [i \in 1..3 |-> Max(excess[i], 0)]
        IN IF \E i \in 1..3 : excess[i] > 0
           THEN ret > 0 /\ NearestRoot(ret, RawSquaredNorm(gap))
           ELSE ret <= 0 /\ ret = MaxCoeff(excess)

\* Center (0,0,0), half-extents (1,1,1), point (3,0,0): distance 2.
C7_Witness ==
    /\ DistanceReturned("Cube")
    /\ obj.center_ = <<0, 0, 0>>
    /\ obj.size_ = <<Scale, Scale, Scale>>
    /\ call.point = <<3 * Scale, 0, 0>>
    /\ ret = 2 * Scale

\* The same cube and its center: distance -1.
C7_WitnessInside ==
    /\ DistanceReturned("Cube")
    /\ obj.center_ = <<0, 0, 0>>
    /\ obj.size_ = <<Scale, Scale, Scale>>
    /\ call.point = <<0, 0, 0>>
    /\ ret = -Scale

(***************************************************************************)
(* C8: for a sphere with radius >= 0 the distance query is signed:         *)
(* negative exactly when |p - center| < radius, zero exactly when          *)
(* |p - center| = radius, positive exactly when |p - center| > radius, and *)
(* equal to -radius at p = center.                                         *)
(***************************************************************************)
C8_SphereDistanceSigned ==
    DistanceReturned("Sphere") =>
        LET sq == RawSquaredNorm(Sub(call.point, obj.center_))
            rr == obj.radius_ * obj.radius_
        IN /\ ret < 0 <=> sq < rr
           /\ ret = 0 <=> sq = rr
           /\ ret > 0 <=> sq > rr
           /\ call.point = obj.center_ => ret = -obj.radius_

\* The center of a sphere of positive radius.
C8_Witness ==
    /\ DistanceReturned("Sphere")
    /\ obj.radius_ > 0
    /\ call.point = obj.center_
    /\ ret = -obj.radius_

(***************************************************************************)
(* C9: the plane distance query divides by the length of the normal: for   *)
(* every non-zero normal n it returns (n . p - n . center) / |n|, so every *)
(* point of the plane gets 0 and center + t * n / |n| gets t.              *)
(***************************************************************************)
C9_PlaneDistanceNormalised ==
    DistanceReturned("Plane") =>
        LET len == CHOOSE l \in 0..(3 * Scale) :
                     l * l = RawSquaredNorm(obj.normal_)
        IN ret * len
             = ExactDot(obj.normal_, Sub(call.point, obj.center_)) * Scale

(***************************************************************************)
(* C10, as claimed: when the ray-intersection query of a sphere or plane   *)
(* returns a result, the distance d satisfies 0 < d <= max_dist and the    *)
(* point is origin + d * direction; otherwise nothing is returned.         *)
(***************************************************************************)
PointOnRay ==
    \A i \in 1..3 :
        2 * Abs((intersect_point[i] - call.ray_origin[i]) * Scale
                  - intersect_dist * call.ray_direction[i]) <= Scale

====
